---- MODULE Spec2Model ----
(***************************************************************************)
(* A model of the rCore (ch4) kernel core of this repository:              *)
(*   - the cooperative task scheduler  (os/src/task/mod.rs, task.rs,       *)
(*     os/src/syscall/process.rs)            -> specification Spec         *)
(*   - the SV39 page table              (os/src/mm/page_table.rs)          *)
(*                                           -> specification SpecPT       *)
(***************************************************************************)
EXTENDS Integers, Sequences, FiniteSets, TLC

(***************************************************************************)
(* Bounds of the model.                                                    *)
(***************************************************************************)
\* get_num_app(): the number of loaded applications
NumApp == 3
\* how many times the clock advances in one behaviour
MaxTicks == 3
\* microseconds the clock advances in one Tick
ClockStep == 600

Tasks == 0 .. (NumApp - 1)

(***************************************************************************)
(* Scheduler state.                                                        *)
(***************************************************************************)
VARIABLES
    task_status,    \* tasks[i].task_status
    current_task,   \* inner.current_task
    start_up_time,  \* tasks[i].start_up_time (a TimeVal)
    task_cx,        \* tasks[i].task_cx: where that saved context resumes
    unused_cx,      \* the `_unused` context of run_first_task
    borrowed,       \* the UPSafeCell of TASK_MANAGER.inner is borrowed
    kpc,            \* where the hardware thread is
    cpu,            \* whose context the hardware thread runs (Boot or a task)
    sw_from,        \* first argument of the pending __switch (a context slot)
    sw_to,          \* second argument of the pending __switch
    clock,          \* get_time_us()
    ticks,          \* number of Tick steps taken
    first_run,      \* history: the time of each task's first transition into Running
    waited,         \* history: dispatches of other tasks since task i last left the CPU
    memory_set,     \* tasks[i].memory_set: the user pages it maps (vpn -> permission)
    heap_bottom,    \* tasks[i].heap_bottom
    program_brk,    \* tasks[i].program_brk
    sys_op,         \* the last sbrk / mmap system call and its arguments
    sys_ret,        \* what that call returned
    sys_calls,      \* how many such calls were made
    syscall_cnt,    \* tasks[i].syscall_cnt: the histogram of system calls, by id
    calls_by,       \* history: the update_syscall_cnt calls made while task i was on the CPU
    last_info       \* the TaskInfo.time of the last task_info call, and who made it

(***************************************************************************)
(* Page-table state (declared here, defined in the second half).           *)
(***************************************************************************)
VARIABLES
    mem,            \* physical memory: frame ppn -> page-table-entry array
    root_ppn,       \* PageTable.root_ppn
    frames,         \* PageTable.frames (the owned FrameTrackers, by ppn)
    next_frame,     \* frame allocator: index of the next fresh frame
    pt_op,          \* the last page-table operation and its arguments
    pt_ret,         \* what the last operation returned (an entry, for translate)
    pt_fatal,       \* the last operation ended in a panic
    bytes           \* physical memory written through byte windows: (ppn, offset) -> u8

\* the TaskControlBlock fields the scheduler itself never writes
cnt_vars == <<syscall_cnt, calls_by>>
tcb_vars == <<memory_set, heap_bottom, program_brk, sys_op, sys_ret, sys_calls, cnt_vars>>
sched_vars == <<task_status, current_task, start_up_time, task_cx, unused_cx,
                borrowed, kpc, cpu, sw_from, sw_to, clock, ticks, first_run, waited,
                tcb_vars, last_info>>
pt_vars == <<mem, root_ppn, frames, next_frame, pt_op, pt_ret, pt_fatal, bytes>>
vars == <<sched_vars, pt_vars>>

(***************************************************************************)
(* TimeVal and kernel_get_time.                                            *)
(***************************************************************************)
\* TimeVal::default()
TimeValDefault == [sec |-> 0, usec |-> 0]

\* kernel_get_time: *ts = TimeVal { sec: us / 1_000_000, usec: us % 1_000_000 }
kernel_get_time(us) == [sec |-> us \div 1000000, usec |-> us % 1000000]

NoTime == [sec |-> -1, usec |-> -1]

\* TimeVal::sub with the operands exchanged
TimeVal_sub_exchanged(self, rhs) ==
    LET self_ms == (self.sec * 1000000 + self.usec) \div 1000
        rhs_ms == (rhs.sec * 1000000 + rhs.usec) \div 1000 IN
    rhs_ms - self_ms

\* impl Sub for TimeVal: the difference in ms (as an integer: a negative
\* result is the usize subtraction underflowing)
TimeVal_sub(self, rhs) ==
    LET self_ms == (self.sec * 1000000 + self.usec) \div 1000
        rhs_ms == (rhs.sec * 1000000 + rhs.usec) \div 1000 IN
    self_ms - rhs_ms

(***************************************************************************)
(* Context slots: the task_cx of every TCB, and run_first_task's _unused.  *)
(***************************************************************************)
UnusedSlot == NumApp
Boot == NumApp

\* what a saved TaskContext resumes into
\*   "trap_return": TaskContext::goto_trap_return, the first entry to user mode
\*   "yield_ret":   after __switch in run_next_task called by sys_yield
\*   "exit_ret":    after __switch in run_next_task called by sys_exit
\*   "first_ret":   after __switch in run_first_task
\*   "zero_init":   TaskContext::zero_init()
CxKinds == {"trap_return", "yield_ret", "exit_ret", "first_ret", "zero_init"}


(***************************************************************************)
(* TaskManager operations (os/src/task/mod.rs).                            *)
(***************************************************************************)
\* the predicate with no test of Exited: anything not Running is taken
Runnable_any_stopped(st) == st # "Running"

\* the predicate of find_next_task's `find`
Runnable(st) == st = "Ready" \/ st = "Init"

None == [some |-> FALSE]
Some(id, st) == [some |-> TRUE, id |-> id, status |-> st]

\* (lo..hi-1).map(|id| id % num_app).find(runnable): the first hit, in range order
RECURSIVE find_in_range(_, _, _)
find_in_range(ts, id, end) ==
    IF id >= end THEN None
    ELSE IF Runnable(ts[id % NumApp]) THEN Some(id % NumApp, ts[id % NumApp])
    ELSE find_in_range(ts, id + 1, end)

\* find_next_task with the scan starting at the current task itself
find_next_task_from_current(ts, current) == find_in_range(ts, current, current + NumApp)

\* find_next_task scanning from task 0 whoever is current
find_next_task_lowest_index(ts, current) == find_in_range(ts, 0, NumApp)

\* find_next_task with the range one short, so the current task is never considered
find_next_task_skip_self(ts, current) == find_in_range(ts, current + 1, current + NumApp)

\* find_next_task: the range is current + 1 .. current + num_app + 1
find_next_task(ts, current) == find_in_range(ts, current + 1, current + NumApp + 1)

\* mark_current_suspended with the status write left out
mark_current_suspended_no_write(ts, cur) == ts

\* mark_current_suspended: inner.tasks[cur].task_status = Ready
mark_current_suspended(ts, cur) == [ts EXCEPT ![cur] = "Ready"]

\* mark_current_exited writing Ready, as its sibling does
mark_current_exited_as_ready(ts, cur) == [ts EXCEPT ![cur] = "Ready"]

\* mark_current_exited: inner.tasks[cur].task_status = Exited
mark_current_exited(ts, cur) == [ts EXCEPT ![cur] = "Exited"]

\* run_next_task, lines 156-161: the stamp goes to inner.tasks[current]
stamp_start_up_time(sut, current, next, status, now) ==
    IF status = "Init" THEN [sut EXCEPT ![current] = kernel_get_time(now)] ELSE sut

\* run_next_task, line 162: inner.tasks[next].task_status = Running
set_next_running(ts, next) == [ts EXCEPT ![next] = "Running"]

\* run_next_task with current_task left at the outgoing task
set_current_task_stale(current, next) == current

\* run_next_task, line 163: inner.current_task = next
set_current_task(current, next) == next

\* the borrow still held at __switch (drop(inner) left out)
drop_inner_missing(held) == held

\* drop(inner) before __switch: the borrow flag afterwards
drop_inner(held) == FALSE

\* the RefMut local `inner` goes out of scope when a TaskManager method returns
scope_end(held) == FALSE

\* RefCell::borrow_mut in UPSafeCell::exclusive_access panics when already borrowed
BorrowPanics == borrowed

(***************************************************************************)
(* TaskControlBlock::new (os/src/task/task.rs).                            *)
(***************************************************************************)
\* bytes in a page (config::PAGE_SIZE)
PAGE_SIZE == 4096

\* VirtAddr::floor, VirtAddr::page_offset, VirtAddr::from(VirtPageNum)
VirtAddr_floor(va) == va \div PAGE_SIZE
page_offset(va) == va % PAGE_SIZE
VirtAddr_from_vpn(vpn) == vpn * PAGE_SIZE

\* the user pages MemorySet::from_elf maps, by vpn: one program page (R|X|U),
\* the user stack page (R|W|U); the heap starts empty at the stack top
ElfSpace == (0 :> {"R", "X", "U"}) @@ (2 :> {"R", "W", "U"})

\* user_sp: the top of the user stack, which becomes heap_bottom and program_brk
UserSp == 3 * PAGE_SIZE

\* no task_info call since the start time of the caller last changed
NoInfo == [some |-> FALSE]

\* the system call ids counted (write, yield, task_info)
SyscallIds == {64, 124, 410}

\* syscall_cnt: [0; MAX_SYSCALL_NUM]
NoCalls == [id \in SyscallIds |-> 0]

(***************************************************************************)
(* The program break (os/src/task/task.rs, os/src/syscall/process.rs).     *)
(***************************************************************************)
\* how many sbrk / mmap calls a behaviour makes
MaxSysCalls == 3

\* i32::MIN
I32Min == (-2147483647) - 1

\* the deltas given to sbrk
SbrkDeltas == {I32Min, -4097, -4096, -1, 0, 1, 4096}

\* VirtAddr::ceil: the first page at or above an address
VirtAddr_ceil(va) == (va + PAGE_SIZE - 1) \div PAGE_SIZE

\* MemorySet::append_to / shrink_to (heap_bottom, new_brk) when they succeed:
\* the heap area covers the pages from heap_bottom up to ceil(new_brk)
heap_resize(ms, bottom, new_brk) ==
    LET lo == bottom \div PAGE_SIZE
        hi == VirtAddr_ceil(new_brk)
        keep == {v \in DOMAIN ms : v < lo} \cup (lo .. (hi - 1)) IN
    [v \in keep |-> IF v >= lo THEN {"R", "W", "U"} ELSE ms[v]]

\* change_program_brk without the heap_bottom test
change_program_brk_no_floor(bottom, brk, size, ok) ==
    IF ok THEN [some |-> TRUE, old |-> brk, brk |-> brk + size]
    ELSE [some |-> FALSE, old |-> brk, brk |-> brk]

\* change_program_brk answering the new break
change_program_brk_new_break(bottom, brk, size, ok) ==
    LET new_brk == brk + size IN
    IF new_brk < bottom THEN [some |-> FALSE, old |-> brk, brk |-> brk]
    ELSE IF ok THEN [some |-> TRUE, old |-> new_brk, brk |-> new_brk]
    ELSE [some |-> FALSE, old |-> brk, brk |-> brk]

\* TaskControlBlock::change_program_brk(size); ok is the result of
\* append_to / shrink_to.  Some(old) is [some |-> TRUE, old |-> ..]
change_program_brk(bottom, brk, size, ok) ==
    LET old_break == brk
        new_brk == brk + size IN
    IF new_brk < bottom THEN [some |-> FALSE, old |-> old_break, brk |-> brk]
    ELSE IF ok THEN [some |-> TRUE, old |-> old_break, brk |-> new_brk]
    ELSE [some |-> FALSE, old |-> old_break, brk |-> brk]

\* sys_sbrk: if let Some(old_brk) = change_program_brk(size) { old_brk } else { -1 }
sys_sbrk(r) == IF r.some THEN r.old ELSE -1

(***************************************************************************)
(* Scheduler actions.                                                      *)
(***************************************************************************)
Alive == kpc \notin {"halted", "panic_sys_exit", "panic_run_first_task", "panic_borrow",
                     "panic_sub_overflow"}

SchedInit ==
    /\ task_status = [i \in Tasks |-> "Init"]
    /\ current_task = 0
    /\ start_up_time = [i \in Tasks |-> TimeValDefault]
    /\ task_cx = [i \in Tasks |-> "trap_return"]
    /\ unused_cx = "zero_init"
    /\ borrowed = FALSE
    /\ kpc = "boot"
    /\ cpu = Boot
    /\ sw_from = UnusedSlot
    /\ sw_to = 0
    /\ clock = 0
    /\ ticks = 0
    /\ first_run = [i \in Tasks |-> NoTime]
    /\ waited = [i \in Tasks |-> 0]
    /\ memory_set = [i \in Tasks |-> ElfSpace]
    /\ heap_bottom = [i \in Tasks |-> UserSp]
    /\ program_brk = [i \in Tasks |-> UserSp]
    /\ sys_op = [op |-> "none"]
    /\ sys_ret = 0
    /\ sys_calls = 0
    /\ syscall_cnt = [i \in Tasks |-> NoCalls]
    /\ calls_by = [i \in Tasks |-> NoCalls]
    /\ last_info = NoInfo

\* ghost bookkeeping: task i becomes Running at time `now`
NoteRunning(fr, i, now) ==
    IF fr[i] = NoTime THEN [fr EXCEPT ![i] = kernel_get_time(now)] ELSE fr

\* ghost bookkeeping: run_next_task dispatches `next`; the count starts again
\* for `next` and for the outgoing task, and every other Ready or Init task
\* has seen one more dispatch go to someone else
NoteDispatch(w, status, current, next) ==
    [i \in Tasks |->
        IF i = next \/ i = current THEN 0
        ELSE IF status[i] \in {"Ready", "Init"} THEN w[i] + 1
        ELSE w[i]]

BorrowPanic ==
    /\ kpc' = "panic_borrow"
    /\ UNCHANGED <<task_status, current_task, start_up_time, task_cx, unused_cx,
                   borrowed, cpu, sw_from, sw_to, clock, ticks, first_run, waited>>

\* the clock source advances
Tick ==
    /\ Alive
    /\ ticks < MaxTicks
    /\ clock' = clock + ClockStep
    /\ ticks' = ticks + 1
    /\ UNCHANGED <<task_status, current_task, start_up_time, task_cx, unused_cx,
                   borrowed, kpc, cpu, sw_from, sw_to, first_run, waited>>
    /\ UNCHANGED <<pt_vars, tcb_vars, last_info>>

\* TaskManager::run_first_task up to (not including) __switch
RunFirstTask ==
    /\ kpc = "boot"
    /\ IF BorrowPanics THEN BorrowPanic
       ELSE /\ start_up_time' = [start_up_time EXCEPT ![0] = kernel_get_time(clock)]
            /\ task_status' = [task_status EXCEPT ![0] = "Running"]
            /\ first_run' = NoteRunning(first_run, 0, clock)
            /\ waited' = [i \in Tasks |-> 0]
            /\ borrowed' = drop_inner(TRUE)
            /\ sw_from' = UnusedSlot
            /\ sw_to' = 0
            /\ kpc' = "first_switch"
            /\ UNCHANGED <<current_task, task_cx, unused_cx, cpu, clock, ticks>>
    /\ UNCHANGED <<pt_vars, tcb_vars, last_info>>

\* sys_yield -> suspend_current_and_run_next -> mark_current_suspended
SysYieldMark ==
    /\ kpc = "user"
    /\ IF BorrowPanics THEN BorrowPanic
       ELSE /\ task_status' = mark_current_suspended(task_status, current_task)
            /\ borrowed' = scope_end(TRUE)
            /\ kpc' = "yield_marked"
            /\ UNCHANGED <<current_task, start_up_time, task_cx, unused_cx,
                           cpu, sw_from, sw_to, clock, ticks, first_run, waited>>
    /\ UNCHANGED <<pt_vars, tcb_vars, last_info>>

\* sys_exit (or a fatal trap) -> exit_current_and_run_next -> mark_current_exited
SysExitMark ==
    /\ kpc = "user"
    /\ IF BorrowPanics THEN BorrowPanic
       ELSE /\ task_status' = mark_current_exited(task_status, current_task)
            /\ borrowed' = scope_end(TRUE)
            /\ kpc' = "exit_marked"
            /\ UNCHANGED <<current_task, start_up_time, task_cx, unused_cx,
                           cpu, sw_from, sw_to, clock, ticks, first_run, waited>>
    /\ UNCHANGED <<pt_vars, tcb_vars, last_info>>

\* TaskManager::run_next_task up to (not including) __switch
RunNextTask ==
    /\ kpc \in {"yield_marked", "exit_marked"}
    /\ IF BorrowPanics THEN BorrowPanic
       ELSE LET found == find_next_task(task_status, current_task)
                \* find_next_task's borrow ends with its scope; run_next_task borrows again
                after_find == scope_end(TRUE) IN
            IF after_find THEN BorrowPanic
            ELSE IF found.some
            THEN LET next == found.id
                     current == current_task IN
                 /\ start_up_time' = stamp_start_up_time(start_up_time, current, next,
                                                         found.status, clock)
                 /\ task_status' = set_next_running(task_status, next)
                 /\ current_task' = set_current_task(current, next)
                 /\ first_run' = NoteRunning(first_run, next, clock)
                 /\ waited' = NoteDispatch(waited, task_status, current, next)
                 /\ borrowed' = drop_inner(TRUE)
                 /\ sw_from' = current
                 /\ sw_to' = next
                 /\ kpc' = IF kpc = "yield_marked" THEN "yield_switch" ELSE "exit_switch"
                 /\ UNCHANGED <<task_cx, unused_cx, cpu, clock, ticks>>
            ELSE \* panic!("All applications completed!")
                 /\ kpc' = "halted"
                 /\ borrowed' = after_find
                 /\ UNCHANGED <<task_status, current_task, start_up_time, task_cx,
                                unused_cx, cpu, sw_from, sw_to, clock, ticks,
                                first_run, waited>>
    /\ UNCHANGED <<pt_vars, tcb_vars>>
    /\ last_info' = IF last_info.some /\ start_up_time'[last_info.task] # start_up_time[last_info.task]
                    THEN NoInfo ELSE last_info

\* the continuation __switch saves for its caller
SavedKind(pc) ==
    CASE pc = "first_switch" -> "first_ret"
      [] pc = "yield_switch" -> "yield_ret"
      [] pc = "exit_switch" -> "exit_ret"

\* where control goes when a saved context is restored
ResumeAt(kind) ==
    CASE kind = "trap_return" -> "user"              \* trap_return, first entry
      [] kind = "yield_ret" -> "user"                \* sys_yield returns 0
      [] kind = "exit_ret" -> "panic_sys_exit"       \* panic!("Unreachable in sys_exit!")
      [] kind = "first_ret" -> "panic_run_first_task"
      [] kind = "zero_init" -> "panic_run_first_task"

\* __switch(sw_from, sw_to): save the caller's context, then restore the target's
Switch ==
    /\ kpc \in {"first_switch", "yield_switch", "exit_switch"}
    /\ LET saved == SavedKind(kpc)
           cx1 == IF sw_from = UnusedSlot THEN task_cx
                  ELSE [task_cx EXCEPT ![sw_from] = saved]
           un1 == IF sw_from = UnusedSlot THEN saved ELSE unused_cx
           loaded == IF sw_to = UnusedSlot THEN un1 ELSE cx1[sw_to] IN
       /\ task_cx' = cx1
       /\ unused_cx' = un1
       /\ cpu' = sw_to
       /\ kpc' = ResumeAt(loaded)
    /\ UNCHANGED <<task_status, current_task, start_up_time, borrowed, sw_from, sw_to,
                   clock, ticks, first_run, waited>>
    /\ UNCHANGED <<pt_vars, tcb_vars, last_info>>

\* get_current_token / get_current_trap_cx: borrow, read, release at scope end
GetCurrentToken ==
    /\ kpc = "user"
    /\ IF BorrowPanics THEN BorrowPanic
       ELSE /\ borrowed' = scope_end(TRUE)
            /\ UNCHANGED <<task_status, current_task, start_up_time, task_cx, unused_cx,
                           kpc, cpu, sw_from, sw_to, clock, ticks, first_run, waited>>
    /\ UNCHANGED <<pt_vars, tcb_vars, last_info>>

\* update_syscall_cnt adding to the entry of every task
update_syscall_cnt_every_task(cnt, current, syscall_id) ==
    [i \in DOMAIN cnt |-> [cnt[i] EXCEPT ![syscall_id] = @ + 1]]

\* TaskManager::update_syscall_cnt -> TaskControlBlock::update_syscall_cnt:
\* inner.tasks[current].syscall_cnt[syscall_id] += 1
update_syscall_cnt(cnt, current, syscall_id) ==
    [cnt EXCEPT ![current][syscall_id] = @ + 1]

\* update_current_syscall_cnt(syscall_id), called for a system call of the running task
UpdateSyscallCnt(syscall_id) ==
    /\ kpc = "user"
    /\ sys_calls < MaxSysCalls
    /\ IF BorrowPanics
       THEN /\ BorrowPanic
            /\ UNCHANGED tcb_vars
       ELSE /\ syscall_cnt' = update_syscall_cnt(syscall_cnt, current_task, syscall_id)
            /\ calls_by' = [calls_by EXCEPT ![cpu][syscall_id] = @ + 1]
            /\ sys_op' = [op |-> "count", task |-> current_task, id |-> syscall_id]
            /\ sys_calls' = sys_calls + 1
            /\ borrowed' = scope_end(TRUE)
            /\ UNCHANGED <<task_status, current_task, start_up_time, task_cx, unused_cx,
                           kpc, cpu, sw_from, sw_to, clock, ticks, first_run, waited,
                           memory_set, heap_bottom, program_brk, sys_ret>>
    /\ UNCHANGED <<pt_vars, last_info>>

\* TaskInfo::new(status, syscall_times, time): syscall_times is cloned
TaskInfo_new(status, syscall_times, time) ==
    [status |-> status, syscall_times |-> syscall_times, time |-> time]

\* TaskManager::get_task_info: the TaskInfo.time of the current task
get_task_info(sut, current, now) == TimeVal_sub(kernel_get_time(now), sut[current])

\* sys_task_info: get_current_taskinfo(), then write_to_cur(ti, task_info)
SysTaskInfo ==
    /\ kpc = "user"
    /\ IF BorrowPanics THEN BorrowPanic /\ UNCHANGED last_info
       ELSE LET time == get_task_info(start_up_time, current_task, clock) IN
            /\ last_info' = [some |-> TRUE, task |-> current_task] @@
                             TaskInfo_new(task_status[current_task],
                                          syscall_cnt[current_task], time)
            /\ kpc' = IF time < 0 THEN "panic_sub_overflow" ELSE kpc
            /\ borrowed' = scope_end(TRUE)
            /\ UNCHANGED <<task_status, current_task, start_up_time, task_cx, unused_cx,
                           cpu, sw_from, sw_to, clock, ticks, first_run, waited>>
    /\ UNCHANGED <<pt_vars, tcb_vars>>

(***************************************************************************)
(* mmap (os/src/syscall/process.rs, os/src/task/mod.rs).                   *)
(***************************************************************************)
\* the (start, len, port) given to mmap: unaligned start; a port bit outside
\* bits 0-2, alone and with bit 0; no port bit; a range reaching the stack
\* page; free ranges of two pages and of one; empty ranges
MmapArgs ==
    { <<4097, 1, 3>>, <<4096, 1, 8>>, <<4096, 1, 9>>, <<4096, 1, 0>>,
      <<4096, 4097, 3>>, <<16384, 4097, 3>>, <<4096, 1, 4>>, <<16384, 1, 1>>,
      <<16384, 0, 1>>, <<0, 0, 7>> }

\* MapPermission of a port (bit 0 R, bit 1 W, bit 2 X), with the U bit
port_permission(port) ==
    {"U"} \cup (IF port % 2 = 1 THEN {"R"} ELSE {})
          \cup (IF (port \div 2) % 2 = 1 THEN {"W"} ELSE {})
          \cup (IF (port \div 4) % 2 = 1 THEN {"X"} ELSE {})

\* a conflict test that finds nothing
is_conflict_never(ms, start, end) == FALSE

\* TaskManager::is_conflict -> memory_set.is_conflict(start, end): a page of
\* [start, end) is already mapped
is_conflict(ms, start, end) == \E v \in start .. (end - 1) : v \in DOMAIN ms

\* TaskManager::alloc_mm -> memory_set.insert_framed_area(start, end, port)
alloc_mm(ms, start, end, perm) ==
    [v \in DOMAIN ms \cup (VirtAddr_floor(start) .. (VirtAddr_ceil(end) - 1)) |->
        IF v \in DOMAIN ms THEN ms[v] ELSE perm]

\* mm::mmap(start, len, port): the checks of the sys_mmap contract, then the mapping
mm_mmap(ms, start, len, port) ==
    IF page_offset(start) # 0 THEN [ret |-> -1, ms |-> ms]
    ELSE IF port \div 8 # 0 \/ port % 8 = 0 THEN [ret |-> -1, ms |-> ms]
    ELSE IF is_conflict(ms, VirtAddr_floor(start), VirtAddr_ceil(start + len))
         THEN [ret |-> -1, ms |-> ms]
    ELSE [ret |-> 0, ms |-> alloc_mm(ms, start, start + len, port_permission(port))]

\* sys_mmap
SysMmap(start, len, port) ==
    /\ kpc = "user"
    /\ sys_calls < MaxSysCalls
    /\ IF BorrowPanics
       THEN /\ BorrowPanic
            /\ UNCHANGED tcb_vars
       ELSE LET cur == current_task
                r == mm_mmap(memory_set[cur], start, len, port) IN
            /\ memory_set' = [memory_set EXCEPT ![cur] = r.ms]
            /\ sys_ret' = r.ret
            /\ sys_op' = [op |-> "mmap", task |-> cur, start |-> start, len |-> len,
                          port |-> port]
            /\ sys_calls' = sys_calls + 1
            /\ borrowed' = scope_end(TRUE)
            /\ UNCHANGED <<task_status, current_task, start_up_time, task_cx, unused_cx,
                           kpc, cpu, sw_from, sw_to, clock, ticks, first_run, waited,
                           heap_bottom, program_brk, cnt_vars>>
    /\ UNCHANGED <<pt_vars, last_info>>

\* the scheduler without the clock and without exits, and the mmap calls
MmNext ==
    \/ RunFirstTask
    \/ SysYieldMark
    \/ RunNextTask
    \/ Switch
    \/ \E a \in MmapArgs : SysMmap(a[1], a[2], a[3])

\* sys_sbrk -> change_program_brk -> TASK_MANAGER.change_current_program_brk
SysSbrk(size, ok) ==
    /\ kpc = "user"
    /\ sys_calls < MaxSysCalls
    /\ IF BorrowPanics
       THEN /\ BorrowPanic
            /\ UNCHANGED tcb_vars
       ELSE LET cur == current_task
                r == change_program_brk(heap_bottom[cur], program_brk[cur], size, ok) IN
            /\ program_brk' = [program_brk EXCEPT ![cur] = r.brk]
            /\ memory_set' = IF r.some
                             THEN [memory_set EXCEPT
                                     ![cur] = heap_resize(@, heap_bottom[cur], r.brk)]
                             ELSE memory_set
            /\ sys_ret' = sys_sbrk(r)
            /\ sys_op' = [op |-> "sbrk", task |-> cur, size |-> size, ok |-> ok,
                          old |-> program_brk[cur]]
            /\ sys_calls' = sys_calls + 1
            /\ borrowed' = scope_end(TRUE)
            /\ UNCHANGED <<task_status, current_task, start_up_time, task_cx, unused_cx,
                           kpc, cpu, sw_from, sw_to, clock, ticks, first_run, waited, heap_bottom,
                           cnt_vars>>
    /\ UNCHANGED <<pt_vars, last_info>>

\* the scheduler without the clock and without exits, the counting of
\* system calls and task_info
CntNext ==
    \/ RunFirstTask
    \/ SysYieldMark
    \/ RunNextTask
    \/ Switch
    \/ \E id \in SyscallIds : UpdateSyscallCnt(id)
    \/ SysTaskInfo

\* the scheduler without the clock and without exits, and the break calls
BrkNext ==
    \/ RunFirstTask
    \/ SysYieldMark
    \/ RunNextTask
    \/ Switch
    \/ \E size \in SbrkDeltas, ok \in BOOLEAN : SysSbrk(size, ok)

\* the scheduler alone: every task only ever yields or exits
FairNext ==
    \/ RunFirstTask
    \/ SysYieldMark
    \/ SysExitMark
    \/ RunNextTask
    \/ Switch

SchedNext ==
    \/ Tick
    \/ RunFirstTask
    \/ SysYieldMark
    \/ SysExitMark
    \/ RunNextTask
    \/ Switch
    \/ GetCurrentToken
    \/ SysTaskInfo


(***************************************************************************)
(* Machine words.  A usize is the set of its bit positions that are 1, so  *)
(* that shifts and masks act on all 64 bits.                               *)
(***************************************************************************)
\* usize is 64 bits wide on riscv64
WordBits == 0 .. 63

\* the word of a natural number
RECURSIVE ToBitsFrom(_, _)
ToBitsFrom(n, pos) ==
    IF n = 0 THEN {}
    ELSE (IF n % 2 = 1 THEN {pos} ELSE {}) \cup ToBitsFrom(n \div 2, pos + 1)
ToBits(n) == ToBitsFrom(n, 0)

\* w << k and w >> k on a usize
Shl(w, k) == {i + k : i \in w} \cap WordBits
Shr(w, k) == {i - k : i \in {j \in w : j >= k}}
\* (1usize << k) - 1
LowMask(k) == 0 .. (k - 1)

(***************************************************************************)
(* PTEFlags and PageTableEntry (os/src/mm/page_table.rs).                  *)
(***************************************************************************)
PTE_V == {0}
PTE_R == {1}
PTE_W == {2}
PTE_X == {3}
PTE_U == {4}

\* PageTableEntry::new: bits = ppn.0 << 10 | flags.bits as usize
PageTableEntry_new(ppn, flags) == Shl(ppn, 10) \cup flags

\* PageTableEntry::empty
PageTableEntry_empty == {}

\* PageTableEntry::ppn: self.bits >> 10 & ((1usize << 44) - 1)
PageTableEntry_ppn(bits) == Shr(bits, 10) \cap LowMask(44)

\* PageTableEntry::flags: PTEFlags::from_bits(self.bits as u8)
PageTableEntry_flags(bits) == bits \cap LowMask(8)

\* PageTableEntry::is_valid
is_valid(bits) == (PageTableEntry_flags(bits) \cap PTE_V) # {}

(***************************************************************************)
(* Inputs of the page-table operations.                                    *)
(***************************************************************************)
\* number of frames the allocator can hand out
MaxFrames == 5

\* vpn 0 and 1 share both directory levels, 512 shares the root entry only,
\* 262144 shares nothing with them
VPNs == {0, 1, 512, 262144}

\* (ppn, flags) pairs given to map (Valid is added by map): the largest 44-bit
\* ppn with its low bit, a small ppn given with Valid already set, and a ppn
\* with a bit above the 44-bit field
MapArgs == { <<{0, 43}, PTE_R \cup PTE_W \cup PTE_U>>,
             <<{1, 2}, PTE_V \cup PTE_X>>,
             <<{0, 44}, PTE_R \cup PTE_U>> }

\* VirtPageNum::indexes: three 9-bit indices, most significant first
indexes(vpn) == <<(vpn \div 262144) % 512, (vpn \div 512) % 512, vpn % 512>>

\* the user pages the byte-buffer operations touch: three consecutive pages
BufVPNs == {0, 1, 2}

\* the entries of a page-table page that the inputs can reach
UsedIdx == {indexes(v)[k] : v \in VPNs \cup BufVPNs, k \in 1 .. 3}

\* a zero-filled page (FrameTracker::new clears the frame)
ZeroPage == [i \in UsedIdx |-> PageTableEntry_empty]

\* no byte of a data page written yet (pages read as zero)
NoBytes == [loc \in {} |-> 0]

\* the ppn of the i-th frame the allocator hands out
FramePpn(i) == ToBits(526336 + i)

NoSlot == [some |-> FALSE]
Slot(ppn, idx) == [some |-> TRUE, ppn |-> ppn, idx |-> idx]

\* a directory entry that also carries R and W
directory_entry_readable(frame) == PageTableEntry_new(frame, PTE_V \cup PTE_R \cup PTE_W)

\* find_pte_create, line 105: *pte = PageTableEntry::new(frame.ppn, PTEFlags::V)
directory_entry(frame) == PageTableEntry_new(frame, PTE_V)

\* find_pte_create, line 106: self.frames.push(frame)
frames_push(fr, frame) == Append(fr, frame)

(***************************************************************************)
(* PageTable (os/src/mm/page_table.rs).                                    *)
(***************************************************************************)
\* find_pte_create: the walk from level i at table ppn; allocates absent tables.
\* t = [mem, frames, next_frame, oom]; the result adds the leaf slot.
RECURSIVE find_pte_create_from(_, _, _, _)
find_pte_create_from(t, idxs, i, ppn) ==
    LET idx == idxs[i + 1]
        pte == t.mem[ppn][idx] IN
    IF i = 2 THEN [t EXCEPT !.slot = Slot(ppn, idx)]
    ELSE IF ~is_valid(pte)
    THEN IF t.next_frame >= MaxFrames
         THEN [t EXCEPT !.oom = TRUE]       \* frame_alloc().unwrap() panics
         ELSE LET frame == FramePpn(t.next_frame)
                  new_pte == directory_entry(frame)
                  t1 == [t EXCEPT !.mem = [f \in DOMAIN t.mem \cup {frame} |->
                                             IF f = frame THEN ZeroPage
                                             ELSE IF f = ppn
                                                  THEN [t.mem[f] EXCEPT ![idx] = new_pte]
                                                  ELSE t.mem[f]],
                                  !.frames = frames_push(t.frames, frame),
                                  !.next_frame = t.next_frame + 1] IN
              find_pte_create_from(t1, idxs, i + 1, PageTableEntry_ppn(new_pte))
    ELSE find_pte_create_from(t, idxs, i + 1, PageTableEntry_ppn(pte))

find_pte_create(m, root, fr, nf, vpn) ==
    find_pte_create_from([mem |-> m, frames |-> fr, next_frame |-> nf, oom |-> FALSE,
                          slot |-> NoSlot],
                         indexes(vpn), 0, root)

\* find_pte: the walk without creating; None when a directory entry is not valid
RECURSIVE find_pte_from(_, _, _, _)
find_pte_from(m, idxs, i, ppn) ==
    LET idx == idxs[i + 1]
        pte == m[ppn][idx] IN
    IF i = 2 THEN Slot(ppn, idx)
    ELSE IF ~is_valid(pte) THEN NoSlot
    ELSE find_pte_from(m, idxs, i + 1, PageTableEntry_ppn(pte))

find_pte(m, root, vpn) == find_pte_from(m, indexes(vpn), 0, root)

\* map with the assertion left out: a valid leaf is overwritten
map_assert_missing(pte) == FALSE

\* map: assert!(!pte.is_valid(), ..) fails
map_assert_fails(pte) == is_valid(pte)

\* unmap with the assertion left out: an invalid leaf is cleared again
unmap_assert_missing(pte) == FALSE

\* unmap: assert!(pte.is_valid(), ..) fails
unmap_assert_fails(pte) == ~is_valid(pte)

\* the leaf entry written with the caller's flags as given
map_leaf_flags_as_given(ppn, flags) == PageTableEntry_new(ppn, flags)

\* the leaf entry map writes
map_leaf(ppn, flags) == PageTableEntry_new(ppn, flags \cup PTE_V)

NoneEntry == [some |-> FALSE]
SomeEntry(bits) == [some |-> TRUE, bits |-> bits]

\* translate: self.find_pte(vpn).map(|pte| *pte)
translate(m, root, vpn) ==
    LET s == find_pte(m, root, vpn) IN
    IF s.some THEN SomeEntry(m[s.ppn][s.idx]) ELSE NoneEntry

\* map as a function of the table t = [mem, frames, next_frame]: the table
\* afterwards, and whether the call ended in a panic
PageTable_map(t, vpn, ppn, flags) ==
    LET c == find_pte_create(t.mem, t.root_ppn, t.frames, t.next_frame, vpn) IN
    IF c.oom \/ map_assert_fails(c.mem[c.slot.ppn][c.slot.idx])
    THEN \* frame_alloc().unwrap() / assert!(!pte.is_valid())
         [mem |-> c.mem, root_ppn |-> t.root_ppn, frames |-> c.frames,
          next_frame |-> c.next_frame, fatal |-> TRUE]
    ELSE [mem |-> [c.mem EXCEPT ![c.slot.ppn][c.slot.idx] = map_leaf(ppn, flags)],
          root_ppn |-> t.root_ppn, frames |-> c.frames,
          next_frame |-> c.next_frame, fatal |-> FALSE]

\* unmap as a function of the table
PageTable_unmap(t, vpn) ==
    LET s == find_pte(t.mem, t.root_ppn, vpn) IN
    IF ~s.some \/ unmap_assert_fails(t.mem[s.ppn][s.idx])
    THEN \* find_pte(vpn).unwrap() / assert!(pte.is_valid())
         [t EXCEPT !.fatal = TRUE]
    ELSE [t EXCEPT !.mem = [t.mem EXCEPT ![s.ppn][s.idx] = PageTableEntry_empty],
                   !.fatal = FALSE]

\* PageTable::new as a value
PageTable_new ==
    [mem |-> [f \in {FramePpn(0)} |-> ZeroPage], root_ppn |-> FramePpn(0),
     frames |-> <<FramePpn(0)>>, next_frame |-> 1, fatal |-> FALSE]

\* the table held in the state variables
ThisTable ==
    [mem |-> mem, root_ppn |-> root_ppn, frames |-> frames, next_frame |-> next_frame,
     fatal |-> pt_fatal]

\* token with the mode field one bit lower
token_mode_shifted(root) == Shl({3}, 59) \cup root

\* PageTable::token: 8usize << 60 | self.root_ppn.0
token(root) == Shl({3}, 60) \cup root

\* PageTable::from_token: root_ppn = satp & ((1usize << 44) - 1), frames = Vec::new()
from_token(satp) == [root_ppn |-> satp \cap LowMask(44), frames |-> <<>>]

(***************************************************************************)
(* Page-table actions.                                                     *)
(***************************************************************************)
\* PageTable::new
PTInit ==
    /\ root_ppn = PageTable_new.root_ppn
    /\ mem = PageTable_new.mem
    /\ frames = PageTable_new.frames
    /\ next_frame = PageTable_new.next_frame
    /\ pt_op = [op |-> "new"]
    /\ pt_ret = NoneEntry
    /\ pt_fatal = FALSE
    /\ bytes = NoBytes

\* PageTable::map
Map(vpn, ppn, flags) ==
    /\ ~pt_fatal
    /\ pt_op' = [op |-> "map", vpn |-> vpn, ppn |-> ppn, flags |-> flags]
    /\ LET t == PageTable_map(ThisTable, vpn, ppn, flags) IN
       /\ frames' = t.frames
       /\ next_frame' = t.next_frame
       /\ mem' = t.mem
       /\ pt_fatal' = t.fatal
    /\ pt_ret' = NoneEntry
    /\ UNCHANGED <<root_ppn, bytes>>
    /\ UNCHANGED sched_vars

\* PageTable::unmap
Unmap(vpn) ==
    /\ ~pt_fatal
    /\ pt_op' = [op |-> "unmap", vpn |-> vpn]
    /\ LET t == PageTable_unmap(ThisTable, vpn) IN
       /\ mem' = t.mem
       /\ pt_fatal' = t.fatal
    /\ pt_ret' = NoneEntry
    /\ UNCHANGED <<root_ppn, frames, next_frame, bytes>>
    /\ UNCHANGED sched_vars

\* PageTable::translate
Translate(vpn) ==
    /\ ~pt_fatal
    /\ pt_op' = [op |-> "translate", vpn |-> vpn]
    /\ pt_ret' = translate(mem, root_ppn, vpn)
    /\ UNCHANGED <<mem, root_ppn, frames, next_frame, pt_fatal, bytes>>
    /\ UNCHANGED sched_vars

PTNext ==
    \/ \E vpn \in VPNs, a \in MapArgs : Map(vpn, a[1], a[2])
    \/ \E vpn \in VPNs : Unmap(vpn)
    \/ \E vpn \in VPNs : Translate(vpn)

(***************************************************************************)
(* Cross-address-space byte transfer (os/src/mm/page_table.rs).            *)
(***************************************************************************)
Min(a, b) == IF a <= b THEN a ELSE b

\* a window &mut ppn.get_bytes_array()[lo..hi] of the physical page ppn
Window(ppn, lo, hi) == [ppn |-> ppn, lo |-> lo, hi |-> hi]

\* the window pushed with the slice always taken as [start_off..end_off]
push_window_no_boundary_case(ppn, start_va, end_va) ==
    Window(ppn, page_offset(start_va), page_offset(end_va))

\* lines 179-183: the slice pushed for one page
push_window(ppn, start_va, end_va) ==
    IF page_offset(end_va) = 0
    THEN Window(ppn, page_offset(start_va), PAGE_SIZE)
    ELSE Window(ppn, page_offset(start_va), page_offset(end_va))

\* the while loop of translated_byte_buffer; None from translate panics in unwrap()
RECURSIVE tbb_loop(_, _, _, _, _)
tbb_loop(m, root, start, end, v) ==
    IF ~(start < end) THEN [fatal |-> FALSE, v |-> v]
    ELSE LET start_va == start
             vpn == VirtAddr_floor(start_va)
             e == translate(m, root, vpn) IN
         IF ~e.some THEN [fatal |-> TRUE, v |-> v]
         ELSE LET ppn == PageTableEntry_ppn(e.bits)
                  end_va == Min(VirtAddr_from_vpn(vpn + 1), end) IN
              tbb_loop(m, root, end_va, end, Append(v, push_window(ppn, start_va, end_va)))

\* translated_byte_buffer(token, ptr, len)
translated_byte_buffer(m, tok, ptr, len) ==
    tbb_loop(m, from_token(tok).root_ppn, ptr, ptr + len, <<>>)

\* the byte at a physical location (pages not yet written read as zero)
ByteAt(b, ppn, off) == IF <<ppn, off>> \in DOMAIN b THEN b[<<ppn, off>>] ELSE 0

\* val_ptr.copy_to(buffer.as_mut_ptr(), buffer.len()): val[from+1 ..] into window w
copy_to(b, w, val, from) ==
    LET locs == {<<w.ppn, o>> : o \in w.lo .. (w.hi - 1)} IN
    [loc \in DOMAIN b \cup locs |->
        IF loc \in locs THEN val[from + (loc[2] - w.lo) + 1] ELSE b[loc]]

\* the for loop of write_translated_buffer with val_ptr never advanced
RECURSIVE write_loop_no_advance(_, _, _, _, _)
write_loop_no_advance(b, buffers, k, val, val_ptr) ==
    IF k > Len(buffers) THEN b
    ELSE write_loop_no_advance(copy_to(b, buffers[k], val, val_ptr), buffers, k + 1, val,
                               val_ptr)

\* the for loop of write_translated_buffer: copy, then val_ptr.add(buffer.len())
RECURSIVE write_loop(_, _, _, _, _)
write_loop(b, buffers, k, val, val_ptr) ==
    IF k > Len(buffers) THEN b
    ELSE write_loop(copy_to(b, buffers[k], val, val_ptr), buffers, k + 1, val,
                    val_ptr + (buffers[k].hi - buffers[k].lo))

\* write_translated_buffer(token, ptr, val); size_of::<T>() is Len(val)
write_translated_buffer(b, m, tok, ptr, val) ==
    LET r == translated_byte_buffer(m, tok, ptr, Len(val)) IN
    IF r.fatal THEN [fatal |-> TRUE, bytes |-> b]
    ELSE [fatal |-> FALSE, bytes |-> write_loop(b, r.v, 1, val, 0)]

\* combined.extend_from_slice(buffer), for every buffer in order
RECURSIVE combine(_, _, _)
combine(b, buffers, k) ==
    IF k > Len(buffers) THEN <<>>
    ELSE LET w == buffers[k] IN
         [i \in 1 .. (w.hi - w.lo) |-> ByteAt(b, w.ppn, w.lo + i - 1)]
            \o combine(b, buffers, k + 1)

\* convert_from_buffer::<T>: assert!(combined.len() >= size_of::<T>()), then read a T
convert_from_buffer(combined, size) ==
    IF ~(Len(combined) >= size) THEN [fatal |-> TRUE]
    ELSE [fatal |-> FALSE, val |-> SubSeq(combined, 1, size)]

\* translated_t::<T>(token, ptr, len)
translated_t(b, m, tok, ptr, len, size) ==
    LET r == translated_byte_buffer(m, tok, ptr, len) IN
    IF r.fatal THEN [fatal |-> TRUE]
    ELSE convert_from_buffer(combine(b, r.v, 1), size)

(***************************************************************************)
(* Inputs and actions of the byte transfer.                                *)
(***************************************************************************)
\* how many bytes may be dirty before a further write is not explored
MaxDirty == 3

\* data pages, not adjacent to each other
DataA == {0, 43}
DataB == {1, 2}
DataC == {3}
UserRW == PTE_R \cup PTE_W \cup PTE_U

\* the address spaces the transfers run against, as the calls that build them:
\* all three pages mapped; page 1 never mapped; page 1 mapped and unmapped;
\* page 2 never mapped; page 0 never mapped; nothing mapped
BufSetups ==
    { << <<"map", 0, DataA, UserRW>>, <<"map", 1, DataB, UserRW>>, <<"map", 2, DataC, UserRW>> >>,
      << <<"map", 0, DataA, UserRW>>, <<"map", 2, DataC, UserRW>> >>,
      << <<"map", 0, DataA, UserRW>>, <<"map", 1, DataB, UserRW>>, <<"unmap", 1>> >>,
      << <<"map", 0, DataC, UserRW>>, <<"map", 1, DataA, UserRW>> >>,
      << <<"map", 1, DataC, UserRW>>, <<"map", 2, DataB, UserRW>> >>,
      << >> }

RECURSIVE ApplySetup(_, _, _)
ApplySetup(t, ops, k) ==
    IF k > Len(ops) THEN t
    ELSE LET o == ops[k] IN
         ApplySetup(IF o[1] = "map" THEN PageTable_map(t, o[2], o[3], o[4])
                    ELSE PageTable_unmap(t, o[2]),
                    ops, k + 1)

\* (ptr, len) given to translated_byte_buffer
BufRanges ==
    { <<0, 0>>, <<4095, 0>>, <<0, 1>>, <<0, 4096>>, <<1, 4095>>, <<4095, 2>>,
      <<4096, 4096>>, <<4097, 10>>, <<8191, 1>>, <<4095, 4097>>, <<4095, 8193>>,
      <<0, 12288>> }

\* (len, size_of::<T>()) given to translated_t
BufReads == { <<2, 2>>, <<3, 3>>, <<4, 3>>, <<1, 2>>, <<2, 3>> }

\* values written: the bytes of a T, for two sizes of T
BufVals == {<<1, 2, 3>>, <<4, 5>>}
\* where they are written
BufPtrs == {10, 4094, 4095, 8191}

\* bit positions of root page numbers (all below 44)
RootBits == {0, 1, 19, 20, 42, 43}

\* a table as PageTable::new leaves it, on whichever frame the allocator gave
PTTokInit ==
    \E r \in SUBSET RootBits :
        /\ root_ppn = r
        /\ mem = [f \in {r} |-> ZeroPage]
        /\ frames = <<r>>
        /\ next_frame = 1
        /\ pt_fatal = FALSE
        /\ pt_op = [op |-> "new"]
        /\ pt_ret = NoneEntry
        /\ bytes = NoBytes

\* PageTable::token
Token ==
    /\ pt_op.op # "token"
    /\ pt_op' = [op |-> "token"]
    /\ pt_ret' = [some |-> TRUE, bits |-> token(root_ppn)]
    /\ UNCHANGED <<mem, root_ppn, frames, next_frame, pt_fatal, bytes>>
    /\ UNCHANGED sched_vars

\* PageTable::from_token, on the token just taken
FromToken ==
    /\ pt_op.op = "token"
    /\ pt_op' = [op |-> "from_token"]
    /\ pt_ret' = [some |-> TRUE, view |-> from_token(pt_ret.bits)]
    /\ UNCHANGED <<mem, root_ppn, frames, next_frame, pt_fatal, bytes>>
    /\ UNCHANGED sched_vars

PTTokNext == Token \/ FromToken

PTBufInit ==
    \E ops \in BufSetups :
        LET t == ApplySetup(PageTable_new, ops, 1) IN
        /\ root_ppn = t.root_ppn
        /\ mem = t.mem
        /\ frames = t.frames
        /\ next_frame = t.next_frame
        /\ pt_fatal = t.fatal
        /\ pt_op = [op |-> "new"]
        /\ pt_ret = NoneEntry
        /\ bytes = NoBytes

TranslatedByteBuffer(ptr, len) ==
    /\ ~pt_fatal
    /\ pt_op' = [op |-> "tbb", ptr |-> ptr, len |-> len]
    /\ LET r == translated_byte_buffer(mem, token(root_ppn), ptr, len) IN
       /\ pt_fatal' = r.fatal
       /\ pt_ret' = [some |-> ~r.fatal, windows |-> r.v]
    /\ UNCHANGED <<mem, root_ppn, frames, next_frame, bytes>>
    /\ UNCHANGED sched_vars

WriteTranslatedBuffer(ptr, val) ==
    /\ ~pt_fatal
    /\ Cardinality(DOMAIN bytes) < MaxDirty
    /\ pt_op' = [op |-> "write", ptr |-> ptr, val |-> val]
    /\ LET r == write_translated_buffer(bytes, mem, token(root_ppn), ptr, val) IN
       /\ pt_fatal' = r.fatal
       /\ bytes' = r.bytes
    /\ pt_ret' = NoneEntry
    /\ UNCHANGED <<mem, root_ppn, frames, next_frame>>
    /\ UNCHANGED sched_vars

TranslatedT(ptr, len, size) ==
    /\ ~pt_fatal
    /\ pt_op' = [op |-> "read", ptr |-> ptr, len |-> len, size |-> size]
    /\ LET r == translated_t(bytes, mem, token(root_ppn), ptr, len, size) IN
       /\ pt_fatal' = r.fatal
       /\ pt_ret' = IF r.fatal THEN NoneEntry ELSE [some |-> TRUE, val |-> r.val]
    /\ UNCHANGED <<mem, root_ppn, frames, next_frame, bytes>>
    /\ UNCHANGED sched_vars

PTBufNext ==
    \/ \E r \in BufRanges : TranslatedByteBuffer(r[1], r[2])
    \/ \E ptr \in BufPtrs, val \in BufVals : WriteTranslatedBuffer(ptr, val)
    \/ \E ptr \in BufPtrs, r \in BufReads : TranslatedT(ptr, r[1], r[2])

(***************************************************************************)
(* Specifications.                                                         *)
(***************************************************************************)
\* the scheduler, with the page table left as created
Init == SchedInit /\ PTInit
Next == SchedNext
Spec == Init /\ [][Next]_vars

\* the page table, with the scheduler left as created
InitPT == SchedInit /\ PTInit
NextPT == PTNext
SpecPT == InitPT /\ [][NextPT]_vars

\* the scheduler when the running task always eventually yields or exits and
\* the kernel code it then enters runs on to the switch
SpecFair ==
    /\ Init
    /\ [][FairNext]_vars
    /\ WF_vars(RunFirstTask)
    /\ WF_vars(SysYieldMark \/ SysExitMark)
    /\ WF_vars(RunNextTask)
    /\ WF_vars(Switch)

\* the system call histograms of the tasks as they take turns
SpecCnt == Init /\ [][CntNext]_vars

\* the program break of the tasks as they take turns
SpecBrk == Init /\ [][BrkNext]_vars

\* the address spaces of the tasks under mmap
SpecMm == Init /\ [][MmNext]_vars

\* the token of tables on any root frame
InitTok == SchedInit /\ PTTokInit
NextTok == PTTokNext
SpecTok == InitTok /\ [][NextTok]_vars

\* the byte transfer against address spaces built by map and unmap
InitBuf == SchedInit /\ PTBufInit
NextBuf == PTBufNext
SpecBuf == InitBuf /\ [][NextBuf]_vars


(***************************************************************************)
(* Properties of the scheduler (checked under Spec).                       *)
(***************************************************************************)
RunningSet == {i \in Tasks : task_status[i] = "Running"}
SwitchPoints == {"first_switch", "yield_switch", "exit_switch"}
MarkedPoints == {"yield_marked", "exit_marked"}
\* the statuses the claims call eligible, stated apart from the code's predicate
ReadyOrInit(st) == st \in {"Ready", "Init"}
NoRunnable == \A i \in Tasks : ~ReadyOrInit(task_status[i])

\* C1: at most one task is Running in every reachable state, and whenever a
\* task executes in user mode exactly one task is Running, it is
\* tasks[current_task], and it is the task whose context the CPU runs.
C1_SingleRunning ==
    /\ Cardinality(RunningSet) <= 1
    /\ kpc = "user" => (RunningSet = {current_task} /\ cpu = current_task)

\* C1 witness: user mode in a task other than task 0, after one task was
\* suspended and another exited.
C1_Witness ==
    /\ kpc = "user"
    /\ current_task # 0
    /\ \E i \in Tasks : task_status[i] = "Ready"
    /\ \E i \in Tasks : task_status[i] = "Exited"

\* position of task id in the scan order (current+1, ..., current+N) mod N
ScanOffset(current, id) == ((id - current - 1 + NumApp) % NumApp) + 1

\* find_next_task returns the runnable task that comes first in scan order,
\* with its status, and None when there is none
FindNextFirstInOrder ==
    LET r == find_next_task(task_status, current_task) IN
    IF NoRunnable THEN r = None
    ELSE /\ r.some
         /\ r.id \in Tasks
         /\ ReadyOrInit(task_status[r.id])
         /\ r.status = task_status[r.id]
         /\ \A j \in Tasks : ReadyOrInit(task_status[j]) =>
                ScanOffset(current_task, r.id) <= ScanOffset(current_task, j)

\* a dispatch made when all N tasks are Ready goes to (current + 1) mod N
RoundRobinStep ==
    (kpc = "yield_marked" /\ (\A i \in Tasks : task_status[i] = "Ready")
        /\ kpc' = "yield_switch")
    => (current_task' = (current_task + 1) % NumApp /\ sw_to' = current_task')

\* C2: find_next_task examines (current+1) mod N, ..., (current+N) mod N in that
\* order (the current task last) and returns the first Ready or Init one with
\* its status; with all N tasks Ready each dispatch goes to the next index, so
\* successive dispatches visit k+1, ..., k+N (mod N) in cyclic order.
C2_FindNextOrder == []FindNextFirstInOrder /\ [][RoundRobinStep]_vars

\* C2 witness: a dispatch to the next index made while every task was Ready.
C2_Witness ==
    /\ kpc = "yield_switch"
    /\ sw_to = (sw_from + 1) % NumApp
    /\ \A i \in Tasks \ {sw_to} : task_status[i] = "Ready"

\* an Exited task is not what find_next_task returns
ExitedNotSelected ==
    LET r == find_next_task(task_status, current_task) IN
    r.some => task_status[r.id] # "Exited"

\* no step takes an Exited task out of Exited, makes it the current task, the
\* target of a switch or the task on the CPU
ExitedStaysExited ==
    \A i \in Tasks : task_status[i] = "Exited" =>
        /\ task_status'[i] = "Exited"
        /\ current_task' = i => current_task = i
        /\ sw_to' = i => sw_to = i
        /\ cpu' = i => cpu = i

\* C3: Exited is terminal: once a task is Exited no scheduler operation selects
\* it, changes its status, or makes it the current task again.
C3_ExitedTerminal == []ExitedNotSelected /\ [][ExitedStaysExited]_vars

\* C3 witness: a dispatch performed after some task has exited.
C3_Witness ==
    /\ kpc = "yield_switch"
    /\ \E i \in Tasks : task_status[i] = "Exited"

\* C4: every task that has ever been Running has its start_up_time equal to
\* the time sampled at its first transition into Running.
C4_StartStampedAtFirstDispatch ==
    \A i \in Tasks : first_run[i] # NoTime => start_up_time[i] = first_run[i]

\* C5: the outgoing task is marked (Ready or Exited) before the switch: at every
\* __switch of run_next_task the incoming task is the only Running one, and a
\* task that lies switched out is never seen Running by the task on the CPU.
C5_MarkThenSwitch ==
    /\ kpc \in {"yield_switch", "exit_switch"} =>
        /\ RunningSet = {sw_to}
        /\ sw_from # sw_to =>
             task_status[sw_from] = (IF kpc = "yield_switch" THEN "Ready" ELSE "Exited")
    /\ kpc \in {"user"} \cup MarkedPoints =>
        \A i \in Tasks \ {cpu} :
            /\ task_cx[i] = "yield_ret" => task_status[i] = "Ready"
            /\ task_cx[i] = "exit_ret" => task_status[i] = "Exited"

\* C5 witness: a __switch from a suspended task to another one.
C5_Witness ==
    /\ kpc = "yield_switch"
    /\ sw_from # sw_to
    /\ task_status[sw_from] = "Ready"
    /\ task_cx[sw_to] = "yield_ret"

\* C6: no borrow of the TaskManager inner state is outstanding when __switch
\* executes, and the re-entrant-borrow panic is unreachable.
C6_NoBorrowAcrossSwitch ==
    /\ kpc \in SwitchPoints => ~borrowed
    /\ kpc # "panic_borrow"

\* C6 witness: the __switch of an exiting task, after other tasks have yielded.
C6_Witness ==
    /\ kpc = "exit_switch"
    /\ ~borrowed
    /\ \E i \in Tasks : task_cx[i] = "yield_ret"

\* a step of run_next_task: it halts exactly when nothing is Ready or Init,
\* otherwise it dispatches a Ready or Init task
RunNextTaskStep ==
    (kpc \in MarkedPoints /\ kpc' # kpc) =>
        /\ (kpc' = "halted") <=> NoRunnable
        /\ ~NoRunnable =>
             /\ kpc' \in {"yield_switch", "exit_switch"}
             /\ ReadyOrInit(task_status[current_task'])
             /\ task_status'[current_task'] = "Running"
             /\ sw_to' = current_task'
        /\ kpc = "yield_marked" => kpc' # "halted"

\* the kernel halts only when every task is Exited
HaltedOnlyWhenAllExited ==
    kpc = "halted" => \A i \in Tasks : task_status[i] = "Exited"

\* C7: run_next_task ends in "All applications completed!" exactly when no task
\* is Ready or Init at the call; otherwise it dispatches one.  A yield never
\* halts the kernel; the exit of the last task does.
C7_HaltIffNoRunnable == []HaltedOnlyWhenAllExited /\ [][RunNextTaskStep]_vars

\* C7 witness: the kernel halted after the last task exited.
C7_Witness ==
    /\ kpc = "halted"
    /\ \A i \in Tasks : task_status[i] = "Exited"
    /\ \E i \in Tasks : task_cx[i] = "yield_ret"

\* C8: sys_exit and run_first_task never return: the context saved by an
\* exiting task and the throwaway context of run_first_task are never
\* restored, so neither "unreachable" panic is reached.
C8_NeverReturns ==
    /\ kpc \notin {"panic_sys_exit", "panic_run_first_task"}
    /\ sw_to # UnusedSlot
    /\ \A i \in Tasks : (task_cx[i] = "exit_ret" /\ task_status[i] = "Exited") => cpu # i

\* C8 witness: a task runs in user mode after run_first_task switched away and
\* after another task exited.
C8_Witness ==
    /\ kpc = "user"
    /\ unused_cx = "first_ret"
    /\ \E i \in Tasks : task_cx[i] = "exit_ret" /\ task_status[i] = "Exited"

(***************************************************************************)
(* Properties of the page table (checked under SpecPT).                    *)
(***************************************************************************)
\* C9: after map(vpn, ppn, flags) on a vpn whose leaf was not valid, with
\* ppn < 2^44, translate(vpn) returns an entry whose ppn is ppn and whose flags
\* are the given flags with Valid added.
C9_MapTranslate ==
    (pt_op.op = "map" /\ ~pt_fatal /\ pt_op.ppn \subseteq LowMask(44)) =>
        LET r == translate(mem, root_ppn, pt_op.vpn) IN
        /\ r.some
        /\ PageTableEntry_ppn(r.bits) = pt_op.ppn
        /\ PageTableEntry_flags(r.bits) = pt_op.flags \cup PTE_V

\* C9 witness: a successful map of the largest 44-bit ppn with flags given
\* without Valid, on a vpn that needed both directory levels created.
C9_Witness ==
    /\ pt_op.op = "map"
    /\ ~pt_fatal
    /\ pt_op.vpn = 262144
    /\ pt_op.ppn = {0, 43}
    /\ PTE_V \cap pt_op.flags = {}

\* C10: translate(vpn) returns an entry only if the leaf entry of vpn is valid,
\* and None otherwise: also right after unmap(vpn), and for a never-mapped vpn
\* that shares both directory levels with a mapped one.
C10_TranslateOnlyValid ==
    /\ \A vpn \in VPNs :
         LET r == translate(mem, root_ppn, vpn) IN r.some => is_valid(r.bits)
    /\ (pt_op.op = "translate" /\ pt_ret.some) => is_valid(pt_ret.bits)
    /\ (pt_op.op = "unmap" /\ ~pt_fatal) => ~translate(mem, root_ppn, pt_op.vpn).some


\* the leaf entry of vpn is present (both directory levels exist) and valid
LeafValid(m, root, vpn) ==
    LET s == find_pte(m, root, vpn) IN s.some /\ (0 \in m[s.ppn][s.idx])

\* a step of the page-table operation named op
PTStepOf(op) == pt_op'.op = op /\ (pt_op' # pt_op \/ pt_fatal' # pt_fatal \/ mem' # mem)

\* C11: map on a vpn whose leaf entry is already valid ends in the fatal
\* assertion and leaves the existing leaf entry (and the whole table) as it was.
C11_NoDoubleMapping ==
    [][(PTStepOf("map") /\ LeafValid(mem, root_ppn, pt_op'.vpn))
        => (pt_fatal' /\ mem' = mem /\ frames' = frames)]_vars

\* C11 witness: a rejected second map whose ppn differs from the one in place.
C11_Witness ==
    /\ pt_op.op = "map"
    /\ pt_fatal
    /\ LeafValid(mem, root_ppn, pt_op.vpn)
    /\ PageTableEntry_ppn(translate(mem, root_ppn, pt_op.vpn).bits) # pt_op.ppn \cap LowMask(44)

\* every entry of every table but the leaf of vpn is the same in m1 and m2
SameButLeaf(m1, m2, root, vpn) ==
    LET s == find_pte(m1, root, vpn) IN
    /\ DOMAIN m1 = DOMAIN m2
    /\ \A f \in DOMAIN m1 : \A i \in UsedIdx :
         (f = s.ppn /\ i = s.idx) \/ m2[f][i] = m1[f][i]

\* C12: unmap(vpn) fails fatally whenever the leaf entry of vpn is not valid,
\* with or without its directory levels, and leaves the table unchanged; when
\* the leaf is valid it clears exactly that entry to all zero bits.
C12_UnmapChecksLeaf ==
    [][PTStepOf("unmap") =>
         IF LeafValid(mem, root_ppn, pt_op'.vpn)
         THEN /\ ~pt_fatal'
              /\ translate(mem', root_ppn, pt_op'.vpn) = SomeEntry({})
              /\ SameButLeaf(mem, mem', root_ppn, pt_op'.vpn)
              /\ frames' = frames
         ELSE pt_fatal' /\ mem' = mem /\ frames' = frames]_vars

\* C12 witness: a fatal unmap of a vpn whose directory levels exist and whose
\* leaf is not valid, while another leaf of the same table is mapped.
C12_Witness ==
    /\ pt_op.op = "unmap"
    /\ pt_fatal
    /\ find_pte(mem, root_ppn, pt_op.vpn).some
    /\ \E v \in VPNs : LeafValid(mem, root_ppn, v)

\* the pages touched by [ptr, ptr+len)
TouchedVPNs(ptr, len) ==
    IF len = 0 THEN {} ELSE (ptr \div PAGE_SIZE) .. ((ptr + len - 1) \div PAGE_SIZE)

AllMapped(ptr, len) == \A v \in TouchedVPNs(ptr, len) : LeafValid(mem, root_ppn, v)

\* the frame the leaf entry of vpn names
LeafPpn(vpn) ==
    LET sl == find_pte(mem, root_ppn, vpn) IN Shr(mem[sl.ppn][sl.idx], 10) \cap LowMask(44)

Max(a, b) == IF a >= b THEN a ELSE b

\* the part of [ptr, ptr+len) inside page vpn, as a window of that page's frame
ReferenceWindow(ptr, len, vpn) ==
    [ppn |-> LeafPpn(vpn),
     lo |-> Max(ptr, vpn * PAGE_SIZE) - vpn * PAGE_SIZE,
     hi |-> Min(ptr + len, (vpn + 1) * PAGE_SIZE) - vpn * PAGE_SIZE]

RECURSIVE SumLen(_, _)
SumLen(w, k) == IF k > Len(w) THEN 0 ELSE (w[k].hi - w[k].lo) + SumLen(w, k + 1)

WindowsDisjoint(w) ==
    \A j, k \in 1 .. Len(w) :
        (j # k /\ w[j].ppn = w[k].ppn) => (w[j].hi <= w[k].lo \/ w[k].hi <= w[j].lo)

\* C13: for ptr and len whose pages are all mapped, translated_byte_buffer
\* returns one window per touched page in increasing address order, each
\* non-empty and inside its page, pairwise disjoint, of total length len (no
\* window when len = 0), and each is the page's part of [ptr, ptr+len) on the
\* frame its leaf names; also for ranges over several pages, unaligned ptr
\* and ptr+len on a page boundary.
C13_WindowsCoverRange ==
    (pt_op.op = "tbb" /\ AllMapped(pt_op.ptr, pt_op.len)) =>
        /\ ~pt_fatal
        /\ pt_ret.some
        /\ LET w == pt_ret.windows
               first == pt_op.ptr \div PAGE_SIZE IN
           /\ Len(w) = Cardinality(TouchedVPNs(pt_op.ptr, pt_op.len))
           /\ pt_op.len = 0 => w = <<>>
           /\ SumLen(w, 1) = pt_op.len
           /\ WindowsDisjoint(w)
           /\ \A k \in 1 .. Len(w) :
                /\ 0 <= w[k].lo /\ w[k].lo < w[k].hi /\ w[k].hi <= PAGE_SIZE
                /\ w[k] = ReferenceWindow(pt_op.ptr, pt_op.len, first + k - 1)

C13_Witness ==
    /\ pt_op.op = "tbb"
    /\ ~pt_fatal
    /\ AllMapped(pt_op.ptr, pt_op.len)
    /\ Len(pt_ret.windows) = 3
    /\ pt_op.ptr % PAGE_SIZE # 0
    /\ (pt_op.ptr + pt_op.len) % PAGE_SIZE = 0

\* C14: translated_byte_buffer fails fatally when a page touched by
\* [ptr, ptr+len) has no valid leaf entry, and so yields no window taken from
\* an invalid leaf.
C14_UnmappedIsFatal ==
    (pt_op.op = "tbb" /\ ~AllMapped(pt_op.ptr, pt_op.len)) => pt_fatal

\* the physical location of the user byte at va
PhysLoc(va) == <<LeafPpn(va \div PAGE_SIZE), va % PAGE_SIZE>>

\* after a completed write, reading a T back at the same ptr gives the value
RoundTrip ==
    (pt_op.op = "write" /\ ~pt_fatal) =>
        translated_t(bytes, mem, token(root_ppn), pt_op.ptr, Len(pt_op.val), Len(pt_op.val))
            = [fatal |-> FALSE, val |-> pt_op.val]

\* a write to mapped pages puts val[i] at ptr+i-1 and changes no other byte
WriteExact ==
    (PTStepOf("write") /\ AllMapped(pt_op'.ptr, Len(pt_op'.val))) =>
        LET val == pt_op'.val
            target == {PhysLoc(pt_op'.ptr + i - 1) : i \in 1 .. Len(val)} IN
        /\ ~pt_fatal'
        /\ Cardinality(target) = Len(val)
        /\ \A i \in 1 .. Len(val) : ByteAt(bytes', PhysLoc(pt_op'.ptr + i - 1)[1],
                                              PhysLoc(pt_op'.ptr + i - 1)[2]) = val[i]
        /\ \A loc \in (DOMAIN bytes \cup DOMAIN bytes') \ target :
                ByteAt(bytes', loc[1], loc[2]) = ByteAt(bytes, loc[1], loc[2])

\* a read whose windows hold fewer bytes than a T fails; a longer one over
\* mapped pages returns the first size_of(T) bytes at ptr
ReadChecked ==
    PTStepOf("read") =>
        IF pt_op'.len < pt_op'.size THEN pt_fatal'
        ELSE AllMapped(pt_op'.ptr, pt_op'.len) =>
                /\ ~pt_fatal'
                /\ pt_ret'.val = [i \in 1 .. pt_op'.size |->
                        ByteAt(bytes, PhysLoc(pt_op'.ptr + i - 1)[1],
                               PhysLoc(pt_op'.ptr + i - 1)[2])]

\* C15: after write_translated_buffer(token, ptr, val) the read
\* translated_t(token, ptr, size_of(T)) returns val, also when the value
\* straddles two pages on non-adjacent frames; the write puts the value's
\* bytes in order at [ptr, ptr+size_of(T)) and changes no other byte; a read
\* whose windows are shorter than size_of(T) fails fatally.
C15_TypedRoundTrip == []RoundTrip /\ [][WriteExact /\ ReadChecked]_vars

C15_Witness ==
    /\ pt_op.op = "write"
    /\ ~pt_fatal
    /\ AllMapped(pt_op.ptr, Len(pt_op.val))
    /\ Cardinality(TouchedVPNs(pt_op.ptr, Len(pt_op.val))) = 2
    /\ LeafPpn(pt_op.ptr \div PAGE_SIZE) = DataA
    /\ LeafPpn(pt_op.ptr \div PAGE_SIZE + 1) = DataB
    /\ Cardinality(DOMAIN bytes) > Len(pt_op.val)

SbrkStep == sys_op'.op = "sbrk" /\ sys_calls' = sys_calls + 1

\* C16: a successful sys_sbrk(delta) returns the break held before the call
\* and moves program_brk to old break + delta; when old break + delta is
\* below heap_bottom, or append_to / shrink_to reports failure, it returns -1
\* and program_brk is unchanged.
C16_SbrkContract ==
    [][SbrkStep =>
        LET i == current_task
            delta == sys_op'.size
            old == program_brk[i]
            fails == old + delta < heap_bottom[i] \/ ~sys_op'.ok IN
        /\ fails => (sys_ret' = -1 /\ program_brk' = program_brk)
        /\ ~fails => /\ sys_ret' = old
                      /\ program_brk'[i] = old + delta
                      /\ (\A j \in Tasks \ {i} : program_brk'[j] = program_brk[j])
        /\ heap_bottom' = heap_bottom]_vars

C16_Witness ==
    /\ sys_op.op = "sbrk"
    /\ sys_op.size < 0
    /\ sys_op.ok
    /\ sys_ret = -1
    /\ program_brk[current_task] = heap_bottom[current_task] + 4096

\* C17: heap_bottom <= program_brk for every task in every reachable state,
\* from the creation of the task control blocks on and across every sbrk call
\* of any outcome.
C17_BreakAboveBottom == \A i \in Tasks : heap_bottom[i] <= program_brk[i]

C17_Witness ==
    /\ sys_op.op = "sbrk"
    /\ sys_op.size = I32Min
    /\ sys_ret = -1
    /\ \E i \in Tasks : i # current_task /\ program_brk[i] > heap_bottom[i]

MmapStep == sys_op'.op = "mmap" /\ sys_calls' = sys_calls + 1

\* the pages of [start, start+len), len rounded up to whole pages
MmapPages(start, len) ==
    (start \div PAGE_SIZE) .. (((start + len + PAGE_SIZE - 1) \div PAGE_SIZE) - 1)

\* C18: mmap(start, len, port) on the current task returns -1 and adds no
\* mapping when start is not page-aligned, when port has a bit outside bits
\* 0-2, when port has none of bits 0-2, or when a page of the range is
\* already mapped; otherwise it returns 0 and maps exactly the pages of the
\* range (none for len = 0), each with the permissions of port plus U.
C18_MmapContract ==
    [][MmapStep =>
        LET i == current_task
            start == sys_op'.start
            port == sys_op'.port
            pages == MmapPages(start, sys_op'.len)
            perm == {"U"} \cup (IF port \in {1, 3, 5, 7} THEN {"R"} ELSE {})
                          \cup (IF port \in {2, 3, 6, 7} THEN {"W"} ELSE {})
                          \cup (IF port \in {4, 5, 6, 7} THEN {"X"} ELSE {})
            bad == \/ start % PAGE_SIZE # 0
                   \/ port \notin 1 .. 7
                   \/ pages \cap DOMAIN memory_set[i] # {} IN
        /\ bad => (sys_ret' = -1 /\ memory_set' = memory_set)
        /\ ~bad => /\ sys_ret' = 0
                    /\ DOMAIN memory_set'[i] = DOMAIN memory_set[i] \cup pages
                    /\ (\A v \in pages : memory_set'[i][v] = perm)
                    /\ (\A u \in DOMAIN memory_set[i] : memory_set'[i][u] = memory_set[i][u])
                    /\ (\A j \in Tasks \ {i} : memory_set'[j] = memory_set[j])
                    /\ (sys_op'.len = 0 => memory_set' = memory_set)]_vars

C18_Witness ==
    /\ sys_op.op = "mmap"
    /\ sys_ret = -1
    /\ sys_op.start % PAGE_SIZE = 0
    /\ sys_op.port \in 1 .. 7
    /\ 2 \in MmapPages(sys_op.start, sys_op.len)
    /\ 4 \in DOMAIN memory_set[current_task]
    /\ 1 \notin DOMAIN memory_set[current_task]

\* C19: a task that has exited holds no frames: its address space maps no
\* page any more.
C19_ExitedHoldsNoFrames ==
    \A i \in Tasks : task_status[i] = "Exited" => DOMAIN memory_set[i] = {}

\* the reported time never comes from an underflowing subtraction
ElapsedNonNegative == last_info.some => last_info.time >= 0

\* a task_info call by the task of the previous call, whose start time has
\* not changed since, reports at least the previous value
ElapsedNonDecreasing ==
    (last_info.some /\ last_info'.some /\ last_info'.task = last_info.task) =>
        last_info'.time >= last_info.time

\* C20: with the monotonic clock the elapsed time reported by task_info is
\* never negative, and of two successive calls by the same task with no
\* change of its start time in between the second reports at least as much
\* as the first.
C20_ElapsedMonotonic == []ElapsedNonNegative /\ [][ElapsedNonDecreasing]_vars

C20_Witness ==
    /\ last_info.some
    /\ last_info.time > 0
    /\ last_info.task = current_task
    /\ start_up_time[current_task] # TimeValDefault
    /\ \E i \in Tasks : task_status[i] = "Exited"

\* a TimeVal in microseconds
TimeValUs(tv) == tv.sec * 1000000 + tv.usec

\* C21: get_task_info reports floor((now_us - start_us) / 1000), where now_us
\* is the time sampled by the call and start_us the stored start time of the
\* current task, whenever start_us <= now_us.
C21_ElapsedIsFloorOfDifference ==
    [][(last_info'.some /\ last_info' # last_info
            /\ TimeValUs(start_up_time[current_task]) <= clock) =>
        last_info'.time = (clock - TimeValUs(start_up_time[current_task])) \div 1000]_vars

\* C25: start_up_time[i] is written only when task i is dispatched for the
\* first time: no step changes the start_up_time of a task that has already
\* run, of the outgoing task, or of a task other than the one dispatched.
C25_StartWrittenOnlyAtOwnFirstDispatch ==
    [][\A i \in Tasks :
        start_up_time'[i] # start_up_time[i] =>
            /\ first_run[i] = NoTime
            /\ task_status[i] = "Init"
            /\ task_status'[i] = "Running"
            /\ current_task' = i]_vars

\* the frames in the owned-frames list
OwnedFrames(fr) == {fr[k] : k \in 1 .. Len(fr)}

\* the frames used as directories: the root, and the tables its valid entries name
DirectoryFrames(m, root) ==
    {root} \cup {Shr(m[root][i], 10) \cap LowMask(44) : i \in {j \in UsedIdx : 0 \in m[root][j]}}

\* every valid entry of a directory names an owned frame and has Valid as its
\* only low bit
DirectoriesOwned ==
    \A f \in DirectoryFrames(mem, root_ppn) :
        /\ f \in DOMAIN mem
        /\ \A i \in UsedIdx :
              0 \in mem[f][i] =>
                  /\ (Shr(mem[f][i], 10) \cap LowMask(44)) \in OwnedFrames(frames)
                  /\ mem[f][i] \cap (0 .. 9) = {0}

\* translate and unmap allocate nothing and leave every directory as it was
OnlyMapAllocates ==
    (PTStepOf("translate") \/ PTStepOf("unmap")) =>
        /\ frames' = frames
        /\ next_frame' = next_frame
        /\ DOMAIN mem' = DOMAIN mem
        /\ DirectoryFrames(mem', root_ppn') = DirectoryFrames(mem, root_ppn)
        /\ (\A f \in DirectoryFrames(mem, root_ppn) : mem'[f] = mem[f])

\* no step removes a frame from the owned list
FramesOnlyGrow == Len(frames') >= Len(frames) /\ SubSeq(frames', 1, Len(frames)) = frames

\* C24: after any sequence of map, unmap and translate on a table made by
\* new(), every valid entry of levels 0 and 1 points to a frame in the owned
\* list and carries Valid only; translate and unmap never allocate or link a
\* frame, and no call removes a frame from the owned list.
C24_DirectoryFramesOwned ==
    []DirectoriesOwned /\ [][OnlyMapAllocates /\ FramesOnlyGrow]_vars

C24_Witness ==
    /\ pt_op.op = "unmap"
    /\ ~pt_fatal
    /\ Len(frames) = MaxFrames
    /\ Cardinality(DirectoryFrames(mem, root_ppn)) = 3
    /\ \E v \in VPNs : LeafValid(mem, root_ppn, v)

\* C23: token() has bits 63..60 equal to 8, bits 43..0 equal to the root page
\* number and every other bit zero, for every root page number below 2^44;
\* from_token(token()) is a view with the same root page number that owns no
\* frames.
C23_TokenBitExact ==
    /\ pt_op.op = "token" =>
        /\ pt_ret.bits \cap (60 .. 63) = {63}
        /\ pt_ret.bits \cap (0 .. 43) = root_ppn
        /\ pt_ret.bits \cap (44 .. 59) = {}
        /\ pt_ret.bits \subseteq 0 .. 63
    /\ pt_op.op = "from_token" =>
        /\ pt_ret.view.root_ppn = root_ppn
        /\ pt_ret.view.frames = <<>>

C23_Witness ==
    /\ pt_op.op = "from_token"
    /\ root_ppn = {0, 43}
    /\ pt_ret.view.root_ppn = {0, 43}

CountStep == sys_op'.op = "count" /\ sys_calls' = sys_calls + 1

\* one count adds 1 to the entry of the calling task for that id, nothing else
CountFrame ==
    CountStep =>
        \A i \in Tasks, id \in SyscallIds :
            syscall_cnt'[i][id] =
                IF i = cpu /\ id = sys_op'.id THEN syscall_cnt[i][id] + 1
                ELSE syscall_cnt[i][id]

\* task_info gives the caller its own status and its own histogram
InfoIsOwn ==
    (last_info'.some /\ last_info' # last_info) =>
        /\ last_info'.task = cpu
        /\ last_info'.status = task_status[cpu]
        /\ last_info'.syscall_times = calls_by[cpu]

\* every histogram holds the calls its own task made, and only those
HistogramsSeparate == \A i \in Tasks : syscall_cnt[i] = calls_by[i]

\* C22: update_syscall_cnt(id) adds exactly 1 to the current task's entry for
\* id and changes no other entry of any task; get_task_info returns the
\* current task's status and a copy of that task's histogram, so that calls
\* counted for one task never show in another task's task_info, whatever
\* yields happen in between.
C22_SyscallCountFrame == []HistogramsSeparate /\ [][CountFrame /\ InfoIsOwn]_vars

C22_Witness ==
    /\ last_info.some
    /\ last_info.task = 1
    /\ last_info.syscall_times[124] = 1
    /\ last_info.syscall_times[64] = 0
    /\ syscall_cnt[0][64] = 1
    /\ syscall_cnt[0][124] = 1

\* task i waits for the CPU
Waiting(i) == task_status[i] \in {"Ready", "Init"}

\* a dispatch of task i is under way
Dispatched(i) == kpc \in SwitchPoints /\ sw_to = i

\* a waiting task has seen at most N-2 dispatches go to others, so its own
\* comes at the latest as the (N-1)th context switch
WaitBounded == \A i \in Tasks : Waiting(i) => waited[i] <= NumApp - 2

\* C26: when the running task always eventually yields or exits, every Ready
\* or Init task becomes Running after at most N-1 further context switches,
\* none is passed over forever, and a task that never exits is dispatched
\* again and again.
C26_BoundedWaiting ==
    /\ []WaitBounded
    /\ \A i \in Tasks : Waiting(i) ~> (task_status[i] = "Running")
    /\ \A i \in Tasks : <>(task_status[i] = "Exited") \/ []<>Dispatched(i)

C26_Witness ==
    /\ kpc = "yield_switch"
    /\ sw_to = 0
    /\ sw_from = NumApp - 1
    /\ \A i \in Tasks : task_status[i] # "Exited"

=============================================================================
